---- MODULE Spec2Model ----
(***************************************************************************)
(* Model of insight_chain.py: plan_tasks, execute_tasks, generate_answer   *)
(* and run_insight_pipeline.                                               *)
(*                                                                         *)
(* Text is a sequence of one-character strings, so that strip(), lower()   *)
(* and startswith() are computed on characters as Python computes them.    *)
(* Longer fixed texts (messages, names) are sequences of text pieces.      *)
(* A JSON / Python value is a record [kind, v].                            *)
(***************************************************************************)
EXTENDS Integers, Sequences, FiniteSets, TLC

\* ------------------------------------------------------------------ bounds
\* longest task list the generator returns in the model
MaxTasks == 2

\* ------------------------------------------------------------------ values
VStr(s) == [kind |-> "str", v |-> s]
VInt(n) == [kind |-> "int", v |-> n]
\* pandas Timestamp / numpy datetime64 value: <<Y, M, D, h, m, s>>
VDatetime(t) == [kind |-> "datetime", v |-> t]
\* pandas Timedelta value, in seconds
VTimedelta(n) == [kind |-> "timedelta", v |-> n]
VNone == [kind |-> "null"]

\* the value kinds json.dumps serialises: string, number, boolean, null
JsonPrimitiveKinds == {"str", "int", "bool", "null"}

\* ------------------------------------------------------------------ text
Whitespace == {" ", "\n"}

LowerChar(c) ==
  CASE c = "S" -> "s" [] c = "E" -> "e" [] c = "L" -> "l" [] c = "C" -> "c"
    [] c = "T" -> "t" [] c = "D" -> "d" [] c = "R" -> "r" [] c = "O" -> "o"
    [] c = "P" -> "p" [] OTHER -> c

\* str.lower()
Lower(s) == [i \in 1..Len(s) |-> LowerChar(s[i])]

RECURSIVE LStrip(_)
\* str.lstrip()
LStrip(s) ==
  IF s = <<>> THEN s
  ELSE IF Head(s) \in Whitespace THEN LStrip(Tail(s)) ELSE s

RECURSIVE RStrip(_)
\* str.rstrip()
RStrip(s) ==
  IF s = <<>> THEN s
  ELSE IF s[Len(s)] \in Whitespace THEN RStrip(SubSeq(s, 1, Len(s) - 1)) ELSE s

\* str.strip()
Strip(s) == RStrip(LStrip(s))

\* str.startswith(p)
StartsWith(s, p) == Len(s) >= Len(p) /\ SubSeq(s, 1, Len(p)) = p

kwSelect == <<"s", "e", "l", "e", "c", "t">>

\* variant: the guardrail without lower()
GuardCaseSensitive(sql) == StartsWith(LStrip(sql), kwSelect)

\* the guardrail of execute_tasks: sql.lower().lstrip().startswith("select")
GuardPermits(sql) == StartsWith(LStrip(Lower(sql)), kwSelect)

\* ------------------------------------------------------------------ dataset
\* The DataFrame load_transactions_df returns: three of the columns of
\* dataset.csv, the timestamp already as the instant the engine reads from it.
Dataset ==
  << [transaction_type |-> <<"P2P">>, transaction_status |-> <<"SUCCESS">>,
      timestamp |-> <<2024, 1, 5, 9, 3, 7>>],
     [transaction_type |-> <<"Bill">>, transaction_status |-> <<"FAILED">>,
      timestamp |-> <<2024, 11, 23, 18, 40, 59>>] >>

\* ------------------------------------------------------------------ engine
\* The in-memory DuckDB connection, as far as execute_tasks can observe it:
\* the one relation con.register creates (a view over the DataFrame) is
\* either present with its rows or dropped.
Registered(df) == [present |-> TRUE, rows |-> df]
Dropped == [present |-> FALSE, rows |-> <<>>]

RECURSIVE RemoveComments(_)
\* SQL line comments: "--" up to the end of the line
RemoveComments(s) ==
  IF s = <<>> THEN s
  ELSE IF Len(s) >= 2 /\ s[1] = "-" /\ s[2] = "-"
       THEN LET RECURSIVE SkipLine(_)
                SkipLine(r) == IF r = <<>> \/ Head(r) = "\n" THEN r
                               ELSE SkipLine(Tail(r))
            IN RemoveComments(SkipLine(s))
       ELSE <<Head(s)>> \o RemoveComments(Tail(s))

RECURSIVE SplitAcc(_, _, _, _)
SplitAcc(s, seps, cur, out) ==
  IF s = <<>> THEN Append(out, cur)
  ELSE IF Head(s) \in seps THEN SplitAcc(Tail(s), seps, <<>>, Append(out, cur))
       ELSE SplitAcc(Tail(s), seps, Append(cur, Head(s)), out)

\* the pieces of s between separators
Split(s, seps) == SplitAcc(s, seps, <<>>, <<>>)

\* the words of one statement, keywords and identifiers folded to lower case
Words(s) == SelectSeq(Split(Lower(s), Whitespace), LAMBDA w : w # <<>>)

\* the statements of a query text: split on ";", comments and empty
\* statements dropped, each statement as its words
Statements(sql) ==
  LET parts == SelectSeq(Split(RemoveComments(sql), {";"}),
                         LAMBDA p : Words(p) # <<>>)
  IN [i \in 1..Len(parts) |-> Words(parts[i])]

\* result DataFrame of a statement: column names, column dtypes, data rows
Frame(columns, dtypes, data) == [columns |-> columns, dtypes |-> dtypes, data |-> data]
EmptyFrame == Frame(<<>>, <<>>, <<>>)

Succeeded(df, con) == [ok |-> TRUE, df |-> df, msg |-> <<>>, con |-> con]
Raised(msg, con) == [ok |-> FALSE, df |-> EmptyFrame, msg |-> msg, con |-> con]

wCnt == <<"c", "n", "t">>
wTyp == <<"t", "y", "p">>
wTs == <<"t", "s">>
wSpan == <<"s", "p", "a", "n">>
wError == <<"e", "r", "r", "o", "r">>
wNocol == <<"n", "o", "c", "o", "l">>
wOne == <<"o", "n", "e">>
wDrop == <<"d", "r", "o", "p">>
wView == <<"v", "i", "e", "w">>
wTable == <<"t", "a", "b", "l", "e">>

\* seconds between the first and the last instant of the data (schematic)
SpanOf(rows) == Len(rows) * 3600

\* One statement on the connection.  The statements of the model stand for
\*   select cnt    SELECT COUNT(*) AS cnt FROM transactions
\*   select typ    SELECT transaction_type AS typ FROM transactions
\*   select ts     SELECT CAST(timestamp AS TIMESTAMP) AS ts FROM transactions
\*   select span   SELECT MAX(ts) - MIN(ts) AS span FROM transactions  (INTERVAL)
\*   select error  SELECT transaction_status AS error FROM transactions
\*   select nocol  SELECT nocol FROM transactions      (no such column)
\*   select one    SELECT 1 AS one                     (no table involved)
\*   drop view     DROP VIEW transactions
\*   drop table    DROP TABLE transactions             (the relation is a view)
\* and every other word sequence is a syntax error.
RunStatement(con, w) ==
  LET rows == con.rows
      Column(f(_)) == [i \in 1..Len(rows) |-> <<f(rows[i])>>]
      NoTable == Raised(<<"Catalog Error: Table with name transactions does not exist!">>, con)
  IN
  IF Len(w) # 2 \/ w[1] \notin {kwSelect, wDrop}
  THEN Raised(<<"Parser Error: syntax error">>, con)
  ELSE IF w[1] = kwSelect THEN
    CASE w[2] = wOne -> Succeeded(Frame(<<"one">>, <<"int64">>, << <<VInt(1)>> >>), con)
      [] w[2] \in {wCnt, wTyp, wTs, wSpan, wError, wNocol} /\ ~con.present -> NoTable
      [] w[2] = wCnt /\ con.present ->
           Succeeded(Frame(<<"cnt">>, <<"int64">>, << <<VInt(Len(rows))>> >>), con)
      [] w[2] = wTyp /\ con.present ->
           Succeeded(Frame(<<"typ">>, <<"object">>,
                           Column(LAMBDA r : VStr(r.transaction_type))), con)
      [] w[2] = wTs /\ con.present ->
           Succeeded(Frame(<<"ts">>, <<"datetime64">>,
                           Column(LAMBDA r : VDatetime(r.timestamp))), con)
      [] w[2] = wSpan /\ con.present ->
           Succeeded(Frame(<<"span">>, <<"timedelta64">>,
                           << <<VTimedelta(SpanOf(rows))>> >>), con)
      [] w[2] = wError /\ con.present ->
           Succeeded(Frame(<<"error">>, <<"object">>,
                           Column(LAMBDA r : VStr(r.transaction_status))), con)
      [] w[2] = wNocol /\ con.present ->
           Raised(<<"Binder Error: Referenced column nocol not found">>, con)
      [] OTHER -> Raised(<<"Parser Error: syntax error">>, con)
  ELSE
    CASE w[2] = wView /\ con.present -> Succeeded(EmptyFrame, Dropped)
      [] w[2] = wView /\ ~con.present ->
           Raised(<<"Catalog Error: View with name transactions does not exist!">>, con)
      [] w[2] = wTable /\ con.present ->
           Raised(<<"Catalog Error: transactions is of type View">>, con)
      [] w[2] = wTable /\ ~con.present -> NoTable
      [] OTHER -> Raised(<<"Parser Error: syntax error">>, con)

RECURSIVE RunStatements(_, _, _)
\* con.execute on the statements of a text: each statement runs and commits
\* in turn, the first failure raises, the last statement's result is returned
RunStatements(con, stmts, last) ==
  IF stmts = <<>> THEN last
  ELSE LET r == RunStatement(con, Head(stmts))
       IN IF r.ok THEN RunStatements(r.con, Tail(stmts), r) ELSE r

\* con.execute(sql).df()
Execute(con, sql) ==
  RunStatements(con, Statements(sql), Raised(<<"No statement to execute">>, con))

\* ------------------------------------------------------------------ rows
Digit(n) ==
  CASE n = 0 -> "0" [] n = 1 -> "1" [] n = 2 -> "2" [] n = 3 -> "3" [] n = 4 -> "4"
    [] n = 5 -> "5" [] n = 6 -> "6" [] n = 7 -> "7" [] n = 8 -> "8" [] n = 9 -> "9"

Pad2(n) == <<Digit((n \div 10) % 10), Digit(n % 10)>>
Pad4(n) == <<Digit((n \div 1000) % 10), Digit((n \div 100) % 10)>> \o Pad2(n)

\* Series.dt.strftime("%Y-%m-%d %H:%M:%S") on one value
Strftime(x) ==
  LET t == x.v
  IN VStr(Pad4(t[1]) \o <<"-">> \o Pad2(t[2]) \o <<"-">> \o Pad2(t[3]) \o <<" ">>
          \o Pad2(t[4]) \o <<":">> \o Pad2(t[5]) \o <<":">> \o Pad2(t[6]))

\* the dtypes select_dtypes(include=["datetime64[ns]", "datetime64[ns, tz]"])
\* selects: numpy datetime64 columns and pandas tz-aware datetime columns
DatetimeDtypes == {"datetime64", "datetimetz"}

\* result_df after the loop over datetime_cols: those columns as strings
ConvertDatetimes(df) ==
  [df EXCEPT !.data =
     [r \in 1..Len(df.data) |->
        [c \in 1..Len(df.columns) |->
           IF df.dtypes[c] \in DatetimeDtypes THEN Strftime(df.data[r][c])
           ELSE df.data[r][c]]]]

\* result_df.to_dict(orient="records"): one mapping column name -> value per row
ToDict(df) ==
  [r \in 1..Len(df.data) |->
     [name \in {df.columns[c] : c \in 1..Len(df.columns)} |->
        LET c == CHOOSE k \in 1..Len(df.columns) : df.columns[k] = name
        IN df.data[r][c]]]

RejectionMessage == <<"Only SELECT queries are allowed.">>

\* variant: the row echoes the lower-cased text the guard tested
ErrorRowLowered(message, sql) ==
  [error |-> VStr(message), sql_received |-> VStr(Lower(sql))]

\* the synthetic row of a task that was rejected or failed
ErrorRow(message, sql) == [error |-> VStr(message), sql_received |-> VStr(sql)]

\* One iteration of the loop of execute_tasks on a task whose sql_query is a
\* string: the rows of the task, the connection afterwards, the branch taken
\* and the text handed to con.execute (if any).
RunTask(con, t) ==
  LET sql == Strip(t.sql_query.v)
  IN IF ~GuardPermits(sql)
     THEN [rows |-> <<ErrorRow(RejectionMessage, sql)>>, con |-> con,
           outcome |-> "rejected", executed |-> <<>>]
     ELSE LET r == Execute(con, sql)
          IN IF r.ok
             THEN [rows |-> ToDict(ConvertDatetimes(r.df)), con |-> r.con,
                   outcome |-> "ok", executed |-> <<sql>>]
             ELSE [rows |-> <<ErrorRow(<<"Query execution failed: ">> \o r.msg, sql)>>,
                   con |-> r.con, outcome |-> "failed", executed |-> <<sql>>]

\* variant: the entry echoes the stripped text the guard looked at
TaskResultStripped(t, rows) ==
  [task_name |-> t.task_name, task_description |-> t.task_description,
   sql_query |-> VStr(Strip(t.sql_query.v)), rows |-> rows]

\* the entry execute_tasks appends to unified["tasks"]
TaskResult(t, rows) ==
  [task_name |-> t.task_name, task_description |-> t.task_description,
   sql_query |-> t.sql_query, rows |-> rows]

\* ------------------------------------------------------------------ generator
VDict(f) == [kind |-> "dict", v |-> f]
VList(seq) == [kind |-> "list", v |-> seq]

\* dict.get(key, default)
Get(d, key, default) == IF key \in DOMAIN d.v THEN d.v[key] ELSE default

SP == <<" ">>
SEMI == <<";">>
upSelect == <<"S", "E", "L", "E", "C", "T">>
mixSelect == <<"S", "e", "l", "e", "c", "t">>
upDrop == <<"D", "R", "O", "P">>

qCount == kwSelect \o SP \o wCnt
qTypUpper == upSelect \o SP \o wTyp
qTsPadded == <<" ", "\n">> \o mixSelect \o SP \o wTs \o SP
qSpan == kwSelect \o SP \o wSpan
qError == kwSelect \o SP \o wError
qNocol == kwSelect \o SP \o wNocol
qSelected == kwSelect \o <<"e", "d">> \o SP \o wCnt
qDropTable == upDrop \o SP \o wTable
qDropViewPadded == SP \o wDrop \o SP \o wView \o SP
qEmpty == << >>
qComment == <<"-", "-", "c">>
qMulti == kwSelect \o SP \o wOne \o SEMI \o wDrop \o SP \o wView
qMultiFail == qMulti \o SEMI \o qNocol
qMultiRejected == wDrop \o SP \o wView \o SEMI \o qCount

\* the query texts the task generator produces in the model
Queries ==
  {qCount, qTypUpper, qTsPadded, qSpan, qError, qNocol, qSelected, qDropTable,
   qDropViewPadded, qEmpty, qComment, qMulti, qMultiFail, qMultiRejected}

\* a well-formed task entry of the generator's JSON
Entry(q) ==
  VDict([task_name |-> VStr(<<"task ">> \o q),
         task_description |-> VStr(<<"computes ">> \o q),
         sql_query |-> VStr(q)])

\* task entries that lack their fields, are no object, or carry a null query
EntryNoFields == VDict([k \in {} |-> VNone])
EntryNotObject == VStr(<<"select cnt">>)
EntryNullSql ==
  VDict([task_name |-> VStr(<<"task null">>), task_description |-> VStr(<<"null">>),
         sql_query |-> VNone])

Entries == {Entry(q) : q \in Queries} \cup {EntryNoFields, EntryNotObject, EntryNullSql}

RECURSIVE SeqsUpTo(_, _)
SeqsUpTo(S, n) ==
  IF n = 0 THEN {<< >>}
  ELSE LET shorter == SeqsUpTo(S, n - 1)
       IN shorter \cup {Append(q, x) : q \in {r \in shorter : Len(r) = n - 1}, x \in S}

\* the LLM call raised; the LLM's text is no JSON
LlmError == [kind |-> "llm_error"]
Unparsable == [kind |-> "unparsable"]

\* what chain.invoke can do in plan_tasks: raise, or return the parsed JSON
GeneratorOutputs ==
  {LlmError, Unparsable, VList(<< >>), VDict([k \in {} |-> VNone]),
   VDict([tasks |-> VNone])}
  \cup {VDict([tasks |-> VList(es)]) : es \in SeqsUpTo(Entries, MaxTasks)}

Planned(tasks) == [ok |-> TRUE, tasks |-> tasks, exc |-> "none"]
PlanFailed(exc) == [ok |-> FALSE, tasks |-> << >>, exc |-> exc]

\* TaskPlanItem(task_name=t.get(...), task_description=t.get(...), sql_query=t.get(...))
TaskPlanItem(t) ==
  [task_name |-> Get(t, "task_name", VStr(<<"Unnamed Task">>)),
   task_description |-> Get(t, "task_description", VStr(<< >>)),
   sql_query |-> Get(t, "sql_query", VStr(<< >>))]

\* variant: entries that are no objects are skipped instead of read
PlanTasksSkipping(raw) ==
  CASE raw.kind = "llm_error" -> PlanFailed("LlmError")
    [] raw.kind = "unparsable" -> PlanFailed("OutputParserException")
    [] raw.kind \notin {"llm_error", "unparsable", "dict"} -> PlanFailed("AttributeError")
    [] raw.kind = "dict" ->
         LET ts == Get(raw, "tasks", VList(<< >>))
         IN IF ts.kind # "list" THEN PlanFailed("TypeError")
            ELSE LET objects == SelectSeq(ts.v, LAMBDA e : e.kind = "dict")
                 IN Planned([k \in 1..Len(objects) |-> TaskPlanItem(objects[k])])

\* plan_tasks from chain.invoke on: the task list, or the exception raised
PlanTasksOf(raw) ==
  CASE raw.kind = "llm_error" -> PlanFailed("LlmError")
    [] raw.kind = "unparsable" -> PlanFailed("OutputParserException")
    [] raw.kind \notin {"llm_error", "unparsable", "dict"} -> PlanFailed("AttributeError")
    [] raw.kind = "dict" ->
         LET ts == Get(raw, "tasks", VList(<< >>))
         IN IF ts.kind # "list" THEN PlanFailed("TypeError")
            ELSE IF \E k \in 1..Len(ts.v) : ts.v[k].kind # "dict"
                 THEN PlanFailed("AttributeError")
                 ELSE Planned([k \in 1..Len(ts.v) |-> TaskPlanItem(ts.v[k])])

\* ------------------------------------------------------------------ narrator
\* json.dumps(unified_json) succeeds: every value of every row is a JSON primitive
JsonSerializable(u) ==
  \A k \in 1..Len(u.tasks) : \A r \in 1..Len(u.tasks[k].rows) :
    \A c \in DOMAIN u.tasks[k].rows[r] :
      u.tasks[k].rows[r][c].kind \in JsonPrimitiveKinds

AnswerText == VStr(<<"answer">>)

\* ------------------------------------------------------------------ state
VARIABLES
  pc,            \* position of run_insight_pipeline
  df,            \* the DataFrame load_transactions_df returned
  raw,           \* what chain.invoke did in plan_tasks
  tasks,         \* the list plan_tasks returned
  con,           \* the DuckDB connection of execute_tasks
  i,             \* index of the next task of the loop of execute_tasks
  unified,       \* the envelope under construction
  outcome,       \* per task, the branch of the loop body that produced its rows
  engineCalls,   \* per task, the texts handed to con.execute
  generatorCalls,\* number of chain.invoke calls
  narratorCalls, \* the envelopes handed to llm.invoke in generate_answer
  result,        \* what run_insight_pipeline returned
  raised         \* the exception that left run_insight_pipeline

vars == <<pc, df, raw, tasks, con, i, unified, outcome, engineCalls,
          generatorCalls, narratorCalls, result, raised>>

NoResult == [kind |-> "null"]
PipelineResult(answer, envelope) ==
  [kind |-> "dict", answer |-> answer, response_json |-> envelope]

NotRaised == [stage |-> "none", exc |-> "none"]

\* an exception leaves run_insight_pipeline from the named call
Raise(stage, exc) ==
  /\ pc' = "raised"
  /\ raised' = [stage |-> stage, exc |-> exc]

Init ==
  /\ pc = "start"
  /\ df = << >>
  /\ raw = VNone
  /\ tasks = << >>
  /\ con = Dropped
  /\ i = 1
  /\ unified = [tasks |-> << >>]
  /\ outcome = << >>
  /\ engineCalls = << >>
  /\ generatorCalls = 0
  /\ narratorCalls = << >>
  /\ result = NoResult
  /\ raised = NotRaised

\* variant: a missing dataset.csv is swallowed and the run goes on without data
LoadDatasetSwallowing ==
  /\ pc = "start"
  /\ \E exists \in BOOLEAN : df' = IF exists THEN Dataset ELSE << >>
  /\ pc' = "loaded"
  /\ UNCHANGED <<raw, tasks, con, i, unified, outcome, engineCalls,
                 generatorCalls, narratorCalls, result, raised>>

\* df = load_transactions_df()
LoadDataset ==
  /\ pc = "start"
  /\ \E exists \in BOOLEAN :
       IF exists
       THEN /\ df' = Dataset
            /\ pc' = "loaded"
            /\ UNCHANGED raised
       ELSE /\ Raise("load_transactions_df", "FileNotFoundError")
            /\ UNCHANGED df
  /\ UNCHANGED <<raw, tasks, con, i, unified, outcome, engineCalls,
                 generatorCalls, narratorCalls, result>>

\* tasks = plan_tasks(user_question)
PlanTasks ==
  /\ pc = "loaded"
  /\ generatorCalls' = generatorCalls + 1
  /\ \E out \in GeneratorOutputs :
       LET p == PlanTasksOf(out)
       IN /\ raw' = out
          /\ IF p.ok
             THEN /\ tasks' = p.tasks
                  /\ pc' = "planned"
                  /\ UNCHANGED raised
             ELSE /\ Raise("plan_tasks", p.exc)
                  /\ UNCHANGED tasks
  /\ UNCHANGED <<df, con, i, unified, outcome, engineCalls, narratorCalls, result>>

\* execute_tasks, up to the loop: connect, register the DataFrame, empty envelope
BeginExecute ==
  /\ pc = "planned"
  /\ con' = Registered(df)
  /\ unified' = [tasks |-> << >>]
  /\ i' = 1
  /\ pc' = "executing"
  /\ UNCHANGED <<df, raw, tasks, outcome, engineCalls, generatorCalls,
                 narratorCalls, result, raised>>

\* one iteration of "for t in tasks"
ExecuteTask ==
  /\ pc = "executing"
  /\ i <= Len(tasks)
  /\ LET t == tasks[i]
     IN IF t.sql_query.kind # "str"
        THEN \* t.sql_query.strip() on a value that is no string
             /\ Raise("execute_tasks", "AttributeError")
             /\ UNCHANGED <<con, i, unified, outcome, engineCalls>>
        ELSE LET r == RunTask(con, t)
             IN /\ con' = r.con
                /\ unified' = [tasks |-> Append(unified.tasks, TaskResult(t, r.rows))]
                /\ outcome' = Append(outcome, r.outcome)
                /\ engineCalls' = Append(engineCalls, r.executed)
                /\ i' = i + 1
                /\ UNCHANGED <<pc, raised>>
  /\ UNCHANGED <<df, raw, tasks, generatorCalls, narratorCalls, result>>

\* return unified
ReturnUnified ==
  /\ pc = "executing"
  /\ i > Len(tasks)
  /\ pc' = "executed"
  /\ UNCHANGED <<df, raw, tasks, con, i, unified, outcome, engineCalls,
                 generatorCalls, narratorCalls, result, raised>>

\* variant: with no task results the narrator is skipped and a stock answer returned
GenerateAnswerSkippingEmpty ==
  /\ pc = "executed"
  /\ IF unified.tasks = << >>
     THEN /\ result' = PipelineResult(VStr(<<"No data.">>), unified)
          /\ pc' = "returned"
          /\ UNCHANGED <<narratorCalls, raised>>
     ELSE IF ~JsonSerializable(unified)
     THEN /\ Raise("generate_answer", "TypeError")
          /\ UNCHANGED <<narratorCalls, result>>
     ELSE /\ narratorCalls' = Append(narratorCalls, unified)
          /\ \E answered \in BOOLEAN :
               IF answered
               THEN /\ result' = PipelineResult(AnswerText, unified)
                    /\ pc' = "returned"
                    /\ UNCHANGED raised
               ELSE /\ Raise("generate_answer", "LlmError")
                    /\ UNCHANGED result
  /\ UNCHANGED <<df, raw, tasks, con, i, unified, outcome, engineCalls, generatorCalls>>

\* answer = generate_answer(user_question, unified_json); return {...}
GenerateAnswer ==
  /\ pc = "executed"
  /\ IF ~JsonSerializable(unified)
     THEN \* json.dumps raises while the prompt is built, before llm.invoke
          /\ Raise("generate_answer", "TypeError")
          /\ UNCHANGED <<narratorCalls, result>>
     ELSE /\ narratorCalls' = Append(narratorCalls, unified)
          /\ \E answered \in BOOLEAN :
               IF answered
               THEN /\ result' = PipelineResult(AnswerText, unified)
                    /\ pc' = "returned"
                    /\ UNCHANGED raised
               ELSE /\ Raise("generate_answer", "LlmError")
                    /\ UNCHANGED result
  /\ UNCHANGED <<df, raw, tasks, con, i, unified, outcome, engineCalls, generatorCalls>>

Next ==
  \/ LoadDataset
  \/ PlanTasks
  \/ BeginExecute
  \/ ExecuteTask
  \/ ReturnUnified
  \/ GenerateAnswer

Spec == Init /\ [][Next]_vars

\* run_insight_pipeline is one synchronous call chain: once plan_tasks has
\* returned, the call of execute_tasks, its return and the call of
\* generate_answer each happen when they can; nothing is assumed of the loop
\* body or of the calls before
FairSpec ==
  Spec /\ WF_vars(BeginExecute) /\ WF_vars(ReturnUnified) /\ WF_vars(GenerateAnswer)

\* ------------------------------------------------------------------ properties
\* execute_tasks has returned its envelope
ExecuteReturned == pc \in {"executed", "returned"}

\* the tasks whose loop iteration is done
Done == 1..Len(outcome)

QueryText(k) == tasks[k].sql_query.v
Rows(k) == unified.tasks[k].rows

\* C1: when execute_tasks returns, the envelope has one entry per input task,
\* in input order, each carrying that task's task_name, task_description and
\* sql_query unchanged and a rows list, however many tasks were rejected or failed.
C1_OneResultPerTask ==
  ExecuteReturned =>
    /\ Len(unified.tasks) = Len(tasks)
    /\ \A k \in 1..Len(tasks) :
         /\ unified.tasks[k].task_name = tasks[k].task_name
         /\ unified.tasks[k].task_description = tasks[k].task_description
         /\ unified.tasks[k].sql_query = tasks[k].sql_query
         /\ DOMAIN Rows(k) = 1..Len(Rows(k))

\* a run of two or more tasks in which one was rejected and one failed, and
\* one of them has surrounding whitespace in its query text
C1_Witness ==
  /\ pc = "executed"
  /\ Len(tasks) >= 2
  /\ \E j, k \in 1..Len(tasks) : outcome[j] = "rejected" /\ outcome[k] = "failed"
  /\ \E k \in 1..Len(tasks) : Strip(QueryText(k)) # QueryText(k)

RECURSIVE RowsOfRun(_, _)
\* the rows execute_tasks gives each task of the list ts, from connection c on
RowsOfRun(c, ts) ==
  IF ts = << >> THEN << >>
  ELSE LET r == RunTask(c, Head(ts))
       IN <<r.rows>> \o RowsOfRun(r.con, Tail(ts))

\* the list ts without its k-th element
Without(ts, k) == SubSeq(ts, 1, k - 1) \o SubSeq(ts, k + 1, Len(ts))

\* every task of the list carries a query text (a string)
AllQueriesText == \A k \in 1..Len(tasks) : tasks[k].sql_query.kind = "str"

\* C2: no query text makes execute_tasks raise; a task that is rejected or
\* fails yields exactly one result holding one error row, the loop goes on, and
\* every other task has the rows it would have had with that task absent.
C2_FailureIsolated ==
  /\ AllQueriesText => raised.stage # "execute_tasks"
  /\ pc = "executed" =>
       \A k \in 1..Len(tasks) :
         outcome[k] # "ok" =>
           /\ Len(Rows(k)) = 1
           /\ "error" \in DOMAIN Rows(k)[1]
           /\ LET alone == RowsOfRun(Registered(df), Without(tasks, k))
              IN /\ \A j \in 1..(k - 1) : Rows(j) = alone[j]
                 /\ \A j \in (k + 1)..Len(tasks) : Rows(j) = alone[j - 1]

\* the case-insensitive test of the claim, character by character: after
\* leading whitespace the text reads s-e-l-e-c-t in either case
BeginsWithSelect(q) ==
  LET s == LStrip(q)
  IN /\ Len(s) >= Len(kwSelect)
     /\ \A n \in 1..Len(kwSelect) : s[n] \in {kwSelect[n], upSelect[n]}

\* C3: a task's query text is handed to con.execute exactly when, after
\* leading whitespace, it begins case-insensitively with "select"; any other
\* text gets the fixed rejection row and the engine is not called for it.
C3_EngineOnlyForSelect ==
  \A k \in Done :
    /\ (engineCalls[k] # << >>) <=> BeginsWithSelect(QueryText(k))
    /\ BeginsWithSelect(QueryText(k)) => engineCalls[k] = <<Strip(QueryText(k))>>
    /\ ~BeginsWithSelect(QueryText(k)) =>
         /\ outcome[k] = "rejected"
         /\ Len(Rows(k)) = 1
         /\ Rows(k)[1].error = VStr(RejectionMessage)

\* a run in which an upper-case and a padded mixed-case SELECT reached the
\* engine and a non-SELECT text did not
C3_Witness ==
  /\ \E k \in Done : QueryText(k) = qTypUpper /\ engineCalls[k] # << >>
  /\ \E k \in Done : QueryText(k) \in {qDropTable, qDropViewPadded} /\ engineCalls[k] = << >>

\* C4: the registered transactions table has, after any sequence of tasks,
\* the contents it had before the first task, and stays queryable.
C4_TableReadOnly ==
  pc \in {"executing", "executed", "returned"} => con = Registered(df)

\* empty text, text of comments only, text of more than one statement
EmptyText(q) == Strip(q) = << >>
CommentsOnly(q) == ~EmptyText(q) /\ Statements(q) = << >>
MultiStatement(q) == Len(Statements(q)) > 1

\* C5: a query text that is empty, only comments, or more than one statement
\* is rejected by the guard and never executed by the engine.
C5_GuardRejectsNonSingleSelect ==
  \A k \in Done :
    (EmptyText(QueryText(k)) \/ CommentsOnly(QueryText(k)) \/ MultiStatement(QueryText(k)))
      => outcome[k] = "rejected" /\ engineCalls[k] = << >>

\* the key of an error row other than "error": the echo of the query
EchoKey(row) == CHOOSE key \in DOMAIN row : key # "error"

\* C6 as claimed: a rejected or failed task has exactly one row, of an error
\* message and an echo of the ORIGINAL query text of the task and nothing
\* else (whatever the echo's key is called).
C6_EchoesOriginalText ==
  \A k \in Done :
    outcome[k] # "ok" =>
      /\ Len(Rows(k)) = 1
      /\ "error" \in DOMAIN Rows(k)[1]
      /\ Cardinality(DOMAIN Rows(k)[1]) = 2
      /\ Rows(k)[1][EchoKey(Rows(k)[1])] = tasks[k].sql_query

\* C6 amended: a rejected or failed task has exactly one row
\* {error, sql_received} and nothing else; error is the fixed rejection
\* message for a rejection and "Query execution failed: " followed by the
\* engine's message for a failure; sql_received is the task's query text with
\* leading and trailing whitespace stripped.
C6_ErrorRowShape ==
  \A k \in Done :
    outcome[k] # "ok" =>
      /\ Len(Rows(k)) = 1
      /\ DOMAIN Rows(k)[1] = {"error", "sql_received"}
      /\ Rows(k)[1].sql_received = VStr(Strip(QueryText(k)))
      /\ Rows(k)[1].error.kind = "str"
      /\ outcome[k] = "rejected" => Rows(k)[1].error.v = RejectionMessage
      /\ outcome[k] = "failed" =>
           /\ Len(Rows(k)[1].error.v) >= 2
           /\ Head(Rows(k)[1].error.v) = "Query execution failed: "
           /\ Tail(Rows(k)[1].error.v) \in
                {Execute(c, QueryText(k)).msg : c \in {Registered(df), Dropped}}

\* a rejected task whose text has surrounding whitespace, and a failed task
C6_Witness ==
  /\ \E k \in Done : outcome[k] = "rejected" /\ QueryText(k) = qDropViewPadded
  /\ \E k \in Done : outcome[k] = "failed"

\* C7: a row with an "error" key is in a task's rows only when the task was
\* rejected or its execution failed, never when its query succeeded.
C7_ErrorKeyMeansFailure ==
  \A k \in Done :
    (\E r \in 1..Len(Rows(k)) : "error" \in DOMAIN Rows(k)[r])
      => outcome[k] \in {"rejected", "failed"}

\* C8: run_insight_pipeline returns answer and envelope together or returns
\* nothing and raises; a failure of loading, of the generator or of the
\* narrator always leaves as an exception, and a loading failure comes before
\* the generator is invoked and before any task runs.
C8_AllOrNothing ==
  /\ pc = "returned" =>
       /\ DOMAIN result = {"kind", "answer", "response_json"}
       /\ result.answer = AnswerText
       /\ result.response_json = unified
       /\ raised = NotRaised
  /\ pc # "returned" => result = NoResult
  /\ (pc = "raised") <=> (raised # NotRaised)
  /\ (pc # "start" /\ df = << >>) =>
       raised = [stage |-> "load_transactions_df", exc |-> "FileNotFoundError"]
  /\ raw.kind \in {"llm_error", "unparsable"} => raised.stage = "plan_tasks"
  /\ (narratorCalls # << >> /\ pc # "returned") =>
       raised = [stage |-> "generate_answer", exc |-> "LlmError"]
  /\ raised.stage = "load_transactions_df" =>
       /\ generatorCalls = 0
       /\ engineCalls = << >>
       /\ outcome = << >>
       /\ narratorCalls = << >>

\* the narrator failed after tasks had run: an exception and no result
C8_Witness ==
  /\ pc = "raised"
  /\ raised.stage = "generate_answer"
  /\ narratorCalls # << >>
  /\ Len(unified.tasks) >= 1
  /\ result = NoResult

\* the generator's output is a well-formed task list: an object whose "tasks"
\* is a list of objects that each carry the three fields as strings
WellFormedEntry(e) ==
  /\ e.kind = "dict"
  /\ DOMAIN e.v = {"task_name", "task_description", "sql_query"}
  /\ \A f \in DOMAIN e.v : e.v[f].kind = "str"

WellFormed(out) ==
  /\ out.kind = "dict"
  /\ "tasks" \in DOMAIN out.v
  /\ out.v.tasks.kind = "list"
  /\ \A k \in 1..Len(out.v.tasks.v) : WellFormedEntry(out.v.tasks.v[k])

\* the generator returned output (it did not raise) and it is malformed
Malformed == generatorCalls > 0 /\ raw.kind # "llm_error" /\ ~WellFormed(raw)

Unreadable ==
  /\ generatorCalls > 0
  /\ \/ raw.kind \notin {"llm_error", "dict"}
     \/ /\ raw.kind = "dict"
        /\ "tasks" \in DOMAIN raw.v
        /\ \/ raw.v.tasks.kind = "null"
           \/ /\ raw.v.tasks.kind = "list"
              /\ \E k \in 1..Len(raw.v.tasks.v) : raw.v.tasks.v[k].kind # "dict"

Digits == {"0", "1", "2", "3", "4", "5", "6", "7", "8", "9"}

\* the text has the form YYYY-MM-DD HH:MM:SS
IsTimestampText(s) ==
  /\ Len(s) = 19
  /\ s[5] = "-" /\ s[8] = "-" /\ s[11] = " " /\ s[14] = ":" /\ s[17] = ":"
  /\ \A n \in (1..19) \ {5, 8, 11, 14, 17} : s[n] \in Digits

\* the result columns of the model's queries that bear timestamps
TimestampColumns == {"ts"}

\* C10: every value of every row of a successful query is a JSON primitive,
\* no native date/time value leaves execute_tasks, and a timestamp-bearing
\* column is a string of the form YYYY-MM-DD HH:MM:SS.
C10_RowsAreJsonPrimitives ==
  \A k \in Done :
    outcome[k] = "ok" =>
      \A r \in 1..Len(Rows(k)) : \A c \in DOMAIN Rows(k)[r] :
        /\ Rows(k)[r][c].kind \in JsonPrimitiveKinds
        /\ c \in TimestampColumns =>
             Rows(k)[r][c].kind = "str" /\ IsTimestampText(Rows(k)[r][c].v)

\* the list ts in reverse order
Reversed(ts) == [n \in 1..Len(ts) |-> ts[Len(ts) + 1 - n]]

\* C11: the rows of each task depend only on its query text and the dataset
\* table: they are the rows the task gets alone on a fresh registration of the
\* table, they are the same when the list runs in the opposite order, and the
\* same text run twice in one run gets the same rows both times.
C11_RowsDependOnlyOnQuery ==
  /\ \A k \in Done : Rows(k) = RunTask(Registered(df), tasks[k]).rows
  /\ \A j, k \in Done : QueryText(j) = QueryText(k) => Rows(j) = Rows(k)
  /\ (pc = "executed" /\ AllQueriesText) =>
       LET back == RowsOfRun(Registered(df), Reversed(tasks))
       IN \A k \in 1..Len(tasks) : Rows(k) = back[Len(tasks) + 1 - k]

EmptyEnvelope == [tasks |-> << >>]

\* plan_tasks returned a list of zero tasks
ZeroTasksPlanned ==
  /\ pc \in {"planned", "executing", "executed", "returned", "raised"}
  /\ raised.stage \notin {"load_transactions_df", "plan_tasks"}
  /\ tasks = << >>

\* C12: when the generator returns zero tasks, execute_tasks returns
\* {"tasks": []}, the narrator is invoked, exactly once and with that empty
\* envelope, and the run returns the narrator's answer paired with the empty
\* envelope; the empty plan itself is never an error (only a failure of the
\* narrator's own call can end the run).
C12_ZeroTasksStillAnswered ==
  /\ [](ZeroTasksPlanned =>
          /\ pc \in {"executed", "returned", "raised"} => unified = EmptyEnvelope
          /\ Len(narratorCalls) <= 1
          /\ narratorCalls # << >> => narratorCalls[1] = EmptyEnvelope
          /\ pc \in {"returned", "raised"} => Len(narratorCalls) = 1
          /\ pc = "returned" => result = PipelineResult(AnswerText, EmptyEnvelope)
          /\ pc = "raised" => raised = [stage |-> "generate_answer", exc |-> "LlmError"])
  /\ (ZeroTasksPlanned /\ pc = "planned") ~> (ZeroTasksPlanned /\ Len(narratorCalls) = 1)

\* the generator returned an empty task list and the run returned an answer
C12_Witness ==
  /\ raw = VDict([tasks |-> VList(<< >>)])
  /\ pc = "returned"
  /\ narratorCalls = <<EmptyEnvelope>>
  /\ result = PipelineResult(AnswerText, EmptyEnvelope)

====
